---------------------------- MODULE Spec2Model ----------------------------
(***************************************************************************)
(* Nano IRC bot: the event-to-reply pipeline of class NanoIRC.             *)
(*                                                                         *)
(* Two revisions of the class are in the repository and both are modelled: *)
(*   net_irc.py       on_pubmsg / on_privmsg / ... with _execute_command,  *)
(*                    _parse_message and _deliver_messages in the class;   *)
(*   src/nano_irc.py  on_public_message / on_private_message / ... with    *)
(*                    _get_replies, _handle_replies, _fire_module_event    *)
(*                    and delivery delegated to a Postmaster.              *)
(*                                                                         *)
(* A Python str is a tuple of one-character strings, so that the regular   *)
(* expressions, html.unescape and ast.literal_eval can be modelled on the  *)
(* characters they read.                                                   *)
(***************************************************************************)
EXTENDS Integers, Sequences, FiniteSets, TLC

(***************************************************************************)
(* Characters and a few generic helpers                                    *)
(***************************************************************************)
\* The one code point U+0002 (IRC bold), written "\x02" in the source.
BOLD == "^B"

Lower == {"a","b","c","d","e","f","g","h","i","j","k","l","m",
          "n","o","p","q","r","s","t","u","v","w","x","y","z"}

Upper == {"A","B","C","D","E","F","G","H","I","J","K","L","M",
          "N","O","P","Q","R","S","T","U","V","W","X","Y","Z"}

Digits == <<"0","1","2","3","4","5","6","7","8","9">>

IsLetter(c) == c \in Lower \cup Upper

IsDigit(c) == \E d \in 1..10 : Digits[d] = c

DigitVal(c) == (CHOOSE d \in 1..10 : Digits[d] = c) - 1

\* s[i..], the empty string when i is past the end.
From(s, i) == SubSeq(s, i, Len(s))

\* Whether the string p occurs in s at position i.
StartsAt(s, i, p) == i + Len(p) - 1 <= Len(s) /\ SubSeq(s, i, i + Len(p) - 1) = p

Min(a, b) == IF a <= b THEN a ELSE b

\* The least element of a non-empty set of integers.
Least(S) == CHOOSE x \in S : \A y \in S : x <= y

\* The greatest element of a non-empty set of integers.
Greatest(S) == CHOOSE x \in S : \A y \in S : y <= x

(***************************************************************************)
(* NanoIRC._parse_message (net_irc.py): bold tags to the control code,     *)
(* then every remaining tag stripped, then HTML entities unescaped.        *)
(***************************************************************************)
tag_strong == <<"<","s","t","r","o","n","g",">">>

tag_strong_end == <<"<","/","s","t","r","o","n","g",">">>

\* sub_bold with the pattern "<strong>" alone: the closing tag is left to the
\* tag stripper.
RECURSIVE sub_bold_opening_only(_, _)
sub_bold_opening_only(s, i) ==
    IF i > Len(s) THEN <<>>
    ELSE IF StartsAt(s, i, tag_strong)
         THEN <<BOLD>> \o sub_bold_opening_only(s, i + Len(tag_strong))
    ELSE <<s[i]>> \o sub_bold_opening_only(s, i + 1)

\* re.sub("(<strong>|<\/strong>)", "\x02", message, 0, re.UNICODE)
RECURSIVE sub_bold(_, _)
sub_bold(s, i) ==
    IF i > Len(s) THEN <<>>
    ELSE IF StartsAt(s, i, tag_strong) THEN <<BOLD>> \o sub_bold(s, i + Len(tag_strong))
    ELSE IF StartsAt(s, i, tag_strong_end) THEN <<BOLD>> \o sub_bold(s, i + Len(tag_strong_end))
    ELSE <<s[i]>> \o sub_bold(s, i + 1)

\* The end of the match of '<[^<]+?>' that starts at i (s[i] = "<"): the first ">"
\* at i+2 or later with no "<" in between; 0 when there is no match at i.
tag_end(s, i) ==
    LET ends == {j \in (i + 2)..Len(s) :
                    s[j] = ">" /\ \A k \in (i + 1)..(j - 1) : s[k] # "<"}
    IN IF ends = {} THEN 0 ELSE Least(ends)

\* re.sub('<[^<]+?>', '', message)
RECURSIVE strip_tags(_, _)
strip_tags(s, i) ==
    IF i > Len(s) THEN <<>>
    ELSE IF s[i] = "<" /\ tag_end(s, i) # 0 THEN strip_tags(s, tag_end(s, i) + 1)
    ELSE <<s[i]>> \o strip_tags(s, i + 1)

\* html.entities.html5, restricted to the names the modelled texts can spell; each
\* name is in the table with and without its semicolon, as in the library.
html5_names == {<<"a","m","p">>, <<"l","t">>, <<"g","t">>}

html5_char(name) ==
    IF name = <<"a","m","p">> THEN "&" ELSE IF name = <<"l","t">> THEN "<" ELSE ">"

in_html5(s) ==
    \/ s \in html5_names
    \/ Len(s) > 1 /\ s[Len(s)] = ";" /\ SubSeq(s, 1, Len(s) - 1) \in html5_names

html5(s) == IF s \in html5_names THEN html5_char(s) ELSE html5_char(SubSeq(s, 1, Len(s) - 1))

\* The character class [^\t\n\f <&#;] of html's charref pattern.
IsRefChar(c) == c \notin {" ", "<", "&", "#", ";"}

\* The text matched after the "&" at position i by '[^\t\n\f <&#;]{1,32};?'
\* (greedy); the empty string when the pattern does not match there.
charref_at(s, i) ==
    LET stops == {j \in (i + 1)..Len(s) : ~IsRefChar(s[j])}
        last  == Min((IF stops = {} THEN Len(s) ELSE Least(stops) - 1), i + 32)
        semi  == IF last < Len(s) /\ s[last + 1] = ";" THEN 1 ELSE 0
    IN IF last <= i THEN <<>> ELSE SubSeq(s, i + 1, last + semi)

\* html._replace_charref for a named reference r (without its "&").
replace_charref(r) ==
    IF in_html5(r) THEN <<html5(r)>>
    ELSE LET pre == {x \in 2..(Len(r) - 1) : in_html5(SubSeq(r, 1, x))}
         IN IF pre = {} THEN <<"&">> \o r
            ELSE <<html5(SubSeq(r, 1, Greatest(pre)))>> \o From(r, Greatest(pre) + 1)

\* html.unescape: one pass, left to right, over the references of the text.
RECURSIVE unescape(_, _)
unescape(s, i) ==
    IF i > Len(s) THEN <<>>
    ELSE IF s[i] = "&" /\ charref_at(s, i) # <<>>
         THEN replace_charref(charref_at(s, i)) \o unescape(s, i + 1 + Len(charref_at(s, i)))
    ELSE <<s[i]>> \o unescape(s, i + 1)

\* _parse_message with the entities unescaped before the tags are stripped.
_parse_message_unescape_first(message) == strip_tags(unescape(sub_bold(message, 1), 1), 1)

\* _parse_message applied to its own result.
_parse_message_twice(message) ==
    unescape(strip_tags(sub_bold(unescape(strip_tags(sub_bold(message, 1), 1), 1), 1), 1), 1)

_parse_message(message) == unescape(strip_tags(sub_bold(message, 1), 1), 1)

(***************************************************************************)
(* The trigger: self.command_pattern = re.compile("^>>>( )?[a-zA-Z]+"),    *)
(* used with .match                                                        *)
(***************************************************************************)
\* command_pattern without the "( )?": no space allowed before the letters.
command_pattern_no_blank(text) ==
    /\ StartsAt(text, 1, <<">",">",">">>)
    /\ Len(text) >= 4 /\ IsLetter(text[4])

command_pattern(text) ==
    /\ StartsAt(text, 1, <<">",">",">">>)
    /\ \/ Len(text) >= 4 /\ IsLetter(text[4])
       \/ Len(text) >= 5 /\ text[4] = " " /\ IsLetter(text[5])

(***************************************************************************)
(* Python values: what the Commander and the Language engine return and    *)
(* what ast.literal_eval builds.  A value x is the pair of its type x[1]   *)
(* and its content x[2]; a dict is the sequence of its items.              *)
(***************************************************************************)
None == <<"NoneType", <<>>>>

PyStr(s) == <<"str", s>>

PyInt(n) == <<"int", n>>

PyBool(b) == <<"bool", b>>

PyList(items) == <<"list", items>>

PyDict(items) == <<"dict", items>>

\* An identifier node of the parsed expression (not a value: literal_eval rejects it).
PyName(s) == <<"Name", s>>

\* bool(x), as in `if reply:`.
Truthy(x) ==
    CASE x[1] = "NoneType" -> FALSE
      [] x[1] = "int" -> x[2] # 0
      [] x[1] = "bool" -> x[2]
      [] OTHER -> x[2] # <<>>

RECURSIVE int_digits(_)
int_digits(n) == IF n < 10 THEN <<Digits[n + 1]>> ELSE int_digits(n \div 10) \o <<Digits[(n % 10) + 1]>>

RECURSIVE py_repr(_)
RECURSIVE repr_items(_, _, _)
\* ", ".join of the reprs of items[i..]; an item of a dict is "key: value".
repr_items(items, i, isdict) ==
    IF i > Len(items) THEN <<>>
    ELSE (IF i > 1 THEN <<",", " ">> ELSE <<>>)
         \o (IF isdict THEN py_repr(items[i][1]) \o <<":", " ">> \o py_repr(items[i][2])
                       ELSE py_repr(items[i]))
         \o repr_items(items, i + 1, isdict)

\* repr(x); a str is quoted with ' unless it holds one (escapes are not modelled:
\* no modelled text holds both quote characters or a backslash).
py_repr(x) ==
    CASE x[1] = "NoneType" -> <<"N","o","n","e">>
      [] x[1] = "int" -> int_digits(x[2])
      [] x[1] = "bool" -> IF x[2] THEN <<"T","r","u","e">> ELSE <<"F","a","l","s","e">>
      [] x[1] = "str" -> LET q == IF \E i \in 1..Len(x[2]) : x[2][i] = "'" THEN "\"" ELSE "'"
                        IN <<q>> \o x[2] \o <<q>>
      [] x[1] = "list" -> <<"[">> \o repr_items(x[2], 1, FALSE) \o <<"]">>
      [] x[1] = "dict" -> <<"{">> \o repr_items(x[2], 1, TRUE) \o <<"}">>

\* str(x), as applied by _parse_message to the message it is given.
py_str(x) == IF x[1] = "str" THEN x[2] ELSE py_repr(x)

(***************************************************************************)
(* ast.literal_eval on the grammar the modelled texts can spell: None,     *)
(* True, False, decimal integers, quoted strings without escapes, lists    *)
(* and dicts of these, identifiers (parsed, then rejected), blanks between *)
(* tokens.  Anything else is a SyntaxError.                                *)
(***************************************************************************)
Parsed(val, next) == [err |-> "none", val |-> val, next |-> next]

ParseError(name) == [err |-> name, val |-> None, next |-> 0]

RECURSIVE skip_blanks(_, _)
skip_blanks(s, i) == IF i <= Len(s) /\ s[i] = " " THEN skip_blanks(s, i + 1) ELSE i

IsIdentChar(c) == IsLetter(c) \/ IsDigit(c) \/ c = "_"

\* The position after the longest run of digits that starts at i.
RECURSIVE digits_end(_, _)
digits_end(s, i) == IF i <= Len(s) /\ IsDigit(s[i]) THEN digits_end(s, i + 1) ELSE i

\* The position after the longest run of identifier characters that starts at i.
RECURSIVE ident_end(_, _)
ident_end(s, i) == IF i <= Len(s) /\ IsIdentChar(s[i]) THEN ident_end(s, i + 1) ELSE i

RECURSIVE digits_val(_)
digits_val(d) == IF d = <<>> THEN 0 ELSE 10 * digits_val(SubSeq(d, 1, Len(d) - 1)) + DigitVal(d[Len(d)])

\* A quoted string that opens at i: up to the next occurrence of the same quote.
parse_string(s, i) ==
    LET closes == {j \in (i + 1)..Len(s) : s[j] = s[i]}
    IN IF closes = {} THEN ParseError("SyntaxError")
       ELSE Parsed(PyStr(SubSeq(s, i + 1, Least(closes) - 1)), Least(closes) + 1)

\* A decimal integer at i; a digit run with a leading zero that is not all zeros,
\* or one running into an identifier character, is not a token.
parse_number(s, i) ==
    LET j == digits_end(s, i)
        d == SubSeq(s, i, j - 1)
    IN IF j <= Len(s) /\ IsIdentChar(s[j]) THEN ParseError("SyntaxError")
       ELSE IF Len(d) > 1 /\ d[1] = "0" /\ digits_val(d) # 0 THEN ParseError("SyntaxError")
       ELSE Parsed(PyInt(digits_val(d)), j)

parse_ident(s, i) ==
    LET j == ident_end(s, i)
        w == SubSeq(s, i, j - 1)
    IN IF j <= Len(s) /\ s[j] \in {"'", "\""} THEN ParseError("SyntaxError")
       ELSE Parsed((CASE w = <<"N","o","n","e">> -> None
                      [] w = <<"T","r","u","e">> -> PyBool(TRUE)
                      [] w = <<"F","a","l","s","e">> -> PyBool(FALSE)
                      [] OTHER -> PyName(w)), j)

RECURSIVE parse_value(_, _)
RECURSIVE parse_list(_, _, _)
RECURSIVE parse_dict(_, _, _)
\* The items of a list display, from position i (after "[" or after a comma).
parse_list(s, i, acc) ==
    LET a == skip_blanks(s, i)
    IN IF a > Len(s) THEN ParseError("SyntaxError")
       ELSE IF s[a] = "]" THEN Parsed(PyList(acc), a + 1)
       ELSE LET item == parse_value(s, a)
                b == skip_blanks(s, item.next)
            IN IF item.err # "none" THEN item
               ELSE IF b > Len(s) THEN ParseError("SyntaxError")
               ELSE IF s[b] = "," THEN parse_list(s, b + 1, Append(acc, item.val))
               ELSE IF s[b] = "]" THEN Parsed(PyList(Append(acc, item.val)), b + 1)
               ELSE ParseError("SyntaxError")

\* The items of a dict display, from position i (after "{" or after a comma).
parse_dict(s, i, acc) ==
    LET a == skip_blanks(s, i)
    IN IF a > Len(s) THEN ParseError("SyntaxError")
       ELSE IF s[a] = "}" THEN Parsed(PyDict(acc), a + 1)
       ELSE LET key == parse_value(s, a)
                c   == skip_blanks(s, key.next)
            IN IF key.err # "none" THEN key
               ELSE IF c > Len(s) \/ s[c] # ":" THEN ParseError("SyntaxError")
               ELSE LET val == parse_value(s, c + 1)
                        b   == skip_blanks(s, val.next)
                    IN IF val.err # "none" THEN val
                       ELSE IF b > Len(s) THEN ParseError("SyntaxError")
                       ELSE IF s[b] = ","
                            THEN parse_dict(s, b + 1, Append(acc, <<key.val, val.val>>))
                       ELSE IF s[b] = "}"
                            THEN Parsed(PyDict(Append(acc, <<key.val, val.val>>)), b + 1)
                       ELSE ParseError("SyntaxError")

parse_value(s, i) ==
    LET a == skip_blanks(s, i)
    IN IF a > Len(s) THEN ParseError("SyntaxError")
       ELSE IF s[a] = "[" THEN parse_list(s, a + 1, <<>>)
       ELSE IF s[a] = "{" THEN parse_dict(s, a + 1, <<>>)
       ELSE IF s[a] \in {"'", "\""} THEN parse_string(s, a)
       ELSE IF IsDigit(s[a]) THEN parse_number(s, a)
       ELSE IF IsLetter(s[a]) \/ s[a] = "_" THEN parse_ident(s, a)
       ELSE ParseError("SyntaxError")

\* The exception _convert leaves with on a parsed expression, "none" if it builds
\* the value: an identifier is a ValueError("malformed node or string"); a dict
\* display is built item by item, key and value converted first and the key then
\* hashed, and a list or dict as a key is a TypeError("unhashable type").
RECURSIVE convert_error(_)
RECURSIVE convert_items_error(_, _, _)
convert_items_error(items, i, isdict) ==
    IF i > Len(items) THEN "none"
    ELSE LET first == IF isdict THEN convert_error(items[i][1]) ELSE convert_error(items[i])
             second == IF isdict THEN convert_error(items[i][2]) ELSE "none"
         IN IF first # "none" THEN first
            ELSE IF second # "none" THEN second
            ELSE IF isdict /\ items[i][1][1] \in {"list", "dict"} THEN "TypeError"
            ELSE convert_items_error(items, i + 1, isdict)

convert_error(x) ==
    CASE x[1] = "Name" -> "ValueError"
      [] x[1] = "list" -> convert_items_error(x[2], 1, FALSE)
      [] x[1] = "dict" -> convert_items_error(x[2], 1, TRUE)
      [] OTHER -> "none"

\* literal_eval(raw): err is "none" and val the value, or err names the exception.
literal_eval(raw) ==
    LET p == IF raw # <<>> /\ raw[1] = " " THEN ParseError("SyntaxError") ELSE parse_value(raw, 1)
    IN IF p.err # "none" THEN p
       ELSE IF skip_blanks(raw, p.next) <= Len(raw) THEN ParseError("SyntaxError")
       ELSE IF convert_error(p.val) # "none" THEN ParseError(convert_error(p.val))
       ELSE p

(***************************************************************************)
(* The objects the handlers pass around, and attribute access on them      *)
(***************************************************************************)
\* irc.client.NickMask: e.source
NickMask(nick, host) == [cls |-> "NickMask", nick |-> nick, host |-> host]

\* A plain Python str used where an object is expected (it has neither .nick nor .name).
StrObj(s) == [cls |-> "str", s |-> s]

\* self.channel, the one channel of the connection.
ChannelName == "#nano"

Channel == [cls |-> "Channel", name |-> ChannelName]

\* self.connection.get_nickname()
BotNick == "nano"

HasAttr(obj, attr) == attr \in DOMAIN obj

\* How a source shows in a recorded call.
SourceName(obj) == IF HasAttr(obj, "nick") THEN obj.nick ELSE obj.s

(***************************************************************************)
(* Effects: the calls a handler makes on its collaborators, in order.      *)
(***************************************************************************)
\* self.connection.privmsg / notice / action (target, text)
Send(kind, target, text) == [op |-> "send", kind |-> kind, who |-> target, text |-> text]

\* self.channel_logger.log(kind, nick, ..., message)
ChanLog(kind, nick, text) == [op |-> "chanlog", kind |-> kind, who |-> nick, text |-> text]

\* self.query_logger(source).log(kind, IRCLoggerSource(nick, host), message)
QueryLog(kind, nick, text) == [op |-> "querylog", kind |-> kind, who |-> nick, text |-> text]

\* self.command.execute(command_string, ..., source, public)
Execute(cmd, nick, public) ==
    [op |-> "execute", kind |-> IF public THEN "public" ELSE "private", who |-> nick, text |-> cmd]

\* self.lang.set_name(host, nick)
SetName(host, nick) == [op |-> "set_name", kind |-> "lang", who |-> host, text |-> nick]

\* self.lang.get_reply(host, text)
GetReply(host, text) == [op |-> "get_reply", kind |-> "lang", who |-> host, text |-> text]

\* self.command.event(event_name, event)
FireEvent(name, nick) == [op |-> "event", kind |-> name, who |-> nick, text |-> <<>>]

\* A call of the delivery routine (_deliver_messages, Postmaster.deliver).
Deliver(nick, public) ==
    [op |-> "deliver", kind |-> IF public THEN "public" ELSE "private", who |-> nick, text |-> <<>>]

\* The outcome of a piece of code: the effects it had, and the exception it left
\* with ("none" when it returned).
Done(trace) == [trace |-> trace, raised |-> "none"]

Raise(trace, exc) == [trace |-> trace, raised |-> exc]

\* first; second  (second does not run when first raised)
AndThen(first, second) ==
    IF first.raised # "none" THEN first
    ELSE [trace |-> first.trace \o second.trace, raised |-> second.raised]

(***************************************************************************)
(* Destination keys                                                        *)
(***************************************************************************)
k_private == <<"p","r","i","v","a","t","e">>

k_private_notice == <<"p","r","i","v","a","t","e","_","n","o","t","i","c","e">>

k_private_action == <<"p","r","i","v","a","t","e","_","a","c","t","i","o","n">>

k_public == <<"p","u","b","l","i","c">>

k_public_notice == <<"p","u","b","l","i","c","_","n","o","t","i","c","e">>

k_public_action == <<"p","u","b","l","i","c","_","a","c","t","i","o","n">>

k_action == <<"a","c","t","i","o","n">>

k_default == <<"d","e","f","a","u","l","t">>

k_command == <<"c","o","m","m","a","n","d">>

(***************************************************************************)
(* The Commander (modules.Commander) is a collaborator: `cmdr` maps a      *)
(* command string to what execute does with it.                            *)
(***************************************************************************)
Returns(value) == [raises |-> FALSE, value |-> value]

Raises == [raises |-> TRUE, value |-> None]

\* self.command.execute(command_string, ...); a string no plugin knows raises.
commander_execute(cmdr, command_string) ==
    IF command_string[1] = "str" /\ command_string[2] \in DOMAIN cmdr
    THEN cmdr[command_string[2]] ELSE Raises

(***************************************************************************)
(* net_irc.py: NanoIRC._execute_command                                    *)
(***************************************************************************)
\* The exception of `command_string[0]` in the log line, "none" when it has a value
\* that can follow 'Executing command ' +.
first_char_error(command_string) ==
    CASE command_string[1] = "str" -> IF command_string[2] = <<>> THEN "IndexError" ELSE "none"
      [] command_string[1] = "list" ->
            IF command_string[2] = <<>> THEN "IndexError"
            ELSE IF command_string[2][1][1] = "str" THEN "none" ELSE "TypeError"
      [] command_string[1] = "dict" -> "KeyError"
      [] OTHER -> "TypeError"

\* _execute_command calling the Commander a second time when the first call failed.
_execute_command_retries(command_string, source, public, cmdr) ==
    IF first_char_error(command_string) # "none"
    THEN [trace |-> <<>>, raised |-> first_char_error(command_string), reply |-> None]
    ELSE LET out == commander_execute(cmdr, command_string)
         IN [trace  |-> IF out.raises
                        THEN <<Execute(py_str(command_string), SourceName(source), public),
                               Execute(py_str(command_string), SourceName(source), public)>>
                        ELSE <<Execute(py_str(command_string), SourceName(source), public)>>,
             raised |-> "none",
             reply  |-> IF out.raises THEN None ELSE out.value]

\* [trace, raised, reply]: an exception of the Commander is caught and None returned.
_execute_command(command_string, source, public, cmdr) ==
    IF first_char_error(command_string) # "none"
    THEN [trace |-> <<>>, raised |-> first_char_error(command_string), reply |-> None]
    ELSE LET out == commander_execute(cmdr, command_string)
         IN [trace  |-> <<Execute(py_str(command_string), SourceName(source), public)>>,
             raised |-> "none",
             reply  |-> IF out.raises THEN None ELSE out.value]

(***************************************************************************)
(* net_irc.py: NanoIRC._deliver_messages                                   *)
(***************************************************************************)
\* send_private with a channel-logger call added, as the public branches have.
send_private_logged(kind, message, source) ==
    IF ~HasAttr(source, "nick") THEN Raise(<<>>, "AttributeError")
    ELSE Done(<<ChanLog("MESSAGE", BotNick, message), Send(kind, source.nick, message)>>)

\* Lines 141-152: destination "private", "private_notice", "private_action".
send_private(kind, message, source) ==
    IF ~HasAttr(source, "nick") THEN Raise(<<>>, "AttributeError")
    ELSE Done(<<Send(kind, source.nick, message)>>)

\* send_public with the logger's format of the `public` branch in every branch.
send_public_as_message(kind, log_format, message, channel) ==
    AndThen(Done(<<ChanLog("MESSAGE", BotNick, message)>>),
            IF ~HasAttr(channel, "name") THEN Raise(<<>>, "AttributeError")
            ELSE Done(<<Send(kind, channel.name, message)>>))

\* send_public with the send before the channel-logger call.
send_public_then_log(kind, log_format, message, channel) ==
    IF ~HasAttr(channel, "name") THEN Raise(<<>>, "AttributeError")
    ELSE Done(<<Send(kind, channel.name, message), ChanLog(log_format, BotNick, message)>>)

\* Lines 153-168: destination "public_action", "public_notice", "public".
send_public(kind, log_format, message, channel) ==
    AndThen(Done(<<ChanLog(log_format, BotNick, message)>>),
            IF ~HasAttr(channel, "name") THEN Raise(<<>>, "AttributeError")
            ELSE Done(<<Send(kind, channel.name, message)>>))

\* send_action sending to channel.name, the name its log line mentions.
send_action_to_channel(message, channel, public, default_destination) ==
    AndThen(Done(IF public THEN <<ChanLog("ACTION", BotNick, message)>> ELSE <<>>),
            IF ~HasAttr(channel, "name") THEN Raise(<<>>, "AttributeError")
            ELSE Done(<<Send("action", channel.name, message)>>))

\* Lines 169-176: destination "action".
send_action(message, channel, public, default_destination) ==
    AndThen(Done(IF public THEN <<ChanLog("ACTION", BotNick, message)>> ELSE <<>>),
            IF ~HasAttr(channel, "name") THEN Raise(<<>>, "AttributeError")
            ELSE Done(<<Send("action", default_destination, message)>>))

\* deliver_default with the send inside the else of `if public`.
deliver_default_send_in_else(message, public, default_destination) ==
    Done(IF public THEN <<ChanLog("MESSAGE", BotNick, message)>>
         ELSE <<Send("privmsg", default_destination, message)>>)

\* deliver_default without the `if public` around the channel-logger call.
deliver_default_always_logged(message, public, default_destination) ==
    Done(<<ChanLog("MESSAGE", BotNick, message),
           Send("privmsg", default_destination, message)>>)

\* Lines 177-193: any other destination, and a bare element.
deliver_default(message, public, default_destination) ==
    Done((IF public THEN <<ChanLog("MESSAGE", BotNick, message)>> ELSE <<>>)
         \o <<Send("privmsg", default_destination, message)>>)

\* deliver_to with a branch for "default" and nothing done for an unknown key.
deliver_to_known_only(destination, message, source, channel, public, default_destination) ==
    CASE destination = PyStr(k_private)        -> send_private("privmsg", message, source)
      [] destination = PyStr(k_private_notice) -> send_private("notice", message, source)
      [] destination = PyStr(k_private_action) -> send_private("action", message, source)
      [] destination = PyStr(k_public_action)  -> send_public("action", "ACTION", message, channel)
      [] destination = PyStr(k_public_notice)  -> send_public("notice", "NOTICE", message, channel)
      [] destination = PyStr(k_public)         -> send_public("privmsg", "MESSAGE", message, channel)
      [] destination = PyStr(k_action) ->
            send_action(message, channel, public, default_destination)
      [] destination = PyStr(k_default) ->
            deliver_default(message, public, default_destination)
      [] OTHER -> Done(<<>>)

\* Lines 140-184: the send (and the channel-logger call) for one mapping element,
\* `message` being the sanitized text.
deliver_to(destination, message, source, channel, public, default_destination) ==
    CASE destination = PyStr(k_private)        -> send_private("privmsg", message, source)
      [] destination = PyStr(k_private_notice) -> send_private("notice", message, source)
      [] destination = PyStr(k_private_action) -> send_private("action", message, source)
      [] destination = PyStr(k_public_action)  -> send_public("action", "ACTION", message, channel)
      [] destination = PyStr(k_public_notice)  -> send_public("notice", "NOTICE", message, channel)
      [] destination = PyStr(k_public)         -> send_public("privmsg", "MESSAGE", message, channel)
      [] destination = PyStr(k_action) ->
            send_action(message, channel, public, default_destination)
      [] OTHER -> deliver_default(message, public, default_destination)

RECURSIVE _deliver_messages(_, _, _, _, _)
RECURSIVE deliver_loop(_, _, _, _, _, _, _)
\* Lines 127-193: the loop over messages[i..]; a `command` element returns from it.
deliver_loop(messages, i, source, channel, public, default_destination, cmdr) ==
    IF i > Len(messages) THEN Done(<<>>)
    ELSE LET message == messages[i]
             rest == deliver_loop(messages, i + 1, source, channel, public,
                                  default_destination, cmdr)
         IN IF message[1] = "dict"
            THEN IF message[2] = <<>> THEN Raise(<<>>, "KeyError")
                 ELSE LET item == message[2][Len(message[2])]
                          destination == item[1]
                      IN IF destination = PyStr(k_command)
                         THEN LET ex == _execute_command(item[2], source, public, cmdr)
                              IN IF ex.raised # "none" THEN Raise(ex.trace, ex.raised)
                                 ELSE IF ~HasAttr(source, "nick") \/ ~HasAttr(channel, "name")
                                      THEN Raise(ex.trace, "AttributeError")
                                 ELSE AndThen(Done(ex.trace),
                                              _deliver_messages(ex.reply, StrObj(source.nick),
                                                                StrObj(channel.name), TRUE, cmdr))
                         ELSE AndThen(deliver_to(destination, _parse_message(py_str(item[2])),
                                                 source, channel, public, default_destination),
                                      rest)
            ELSE AndThen(deliver_default(_parse_message(py_str(message)), public,
                                         default_destination),
                         rest)

\* _deliver_messages(messages, source, channel, public=True)
_deliver_messages(messages, source, channel, public, cmdr) ==
    LET list == IF messages[1] = "list" THEN messages[2] ELSE <<messages>>
    IN IF public
       THEN IF ~HasAttr(channel, "name")
            THEN Raise(<<Deliver(SourceName(source), public)>>, "AttributeError")
            ELSE AndThen(Done(<<Deliver(SourceName(source), public)>>),
                         deliver_loop(list, 1, source, channel, public, channel.name, cmdr))
       ELSE IF ~HasAttr(source, "nick")
            THEN Raise(<<Deliver(SourceName(source), public)>>, "AttributeError")
            ELSE AndThen(Done(<<Deliver(SourceName(source), public)>>),
                         deliver_loop(list, 1, source, channel, public, source.nick, cmdr))

(***************************************************************************)
(* net_irc.py: the message handlers                                        *)
(***************************************************************************)
\* query_logger without the lookup: a new logger on every call.
query_logger_always_new(loggers, source) ==
    [n \in DOMAIN loggers \cup {source.nick} |->
        IF n = source.nick THEN source.host ELSE loggers[n]]

\* query_logger(source): the map of query loggers after the call; a logger is
\* identified by the nick it is stored under and keeps the host it was made with.
query_logger(loggers, source) ==
    IF source.nick \in DOMAIN loggers THEN loggers
    ELSE [n \in DOMAIN loggers \cup {source.nick} |->
             IF n = source.nick THEN source.host ELSE loggers[n]]

\* Lines 400-407 of on_pubmsg and 460-467 of on_privmsg: [trace, raised, reply] of
\* asking the Language engine, `parsed` being literal_eval of its answer raw_reply;
\* only SyntaxError and ValueError are caught, and then the answer stays as it is.
language_reply(e, raw_reply, parsed) ==
    IF parsed.err = "none"
    THEN [trace |-> <<GetReply(e.source.host, e.arguments[1][2])>>, raised |-> "none",
          reply |-> parsed.val]
    ELSE IF parsed.err \in {"SyntaxError", "ValueError"}
    THEN [trace |-> <<GetReply(e.source.host, e.arguments[1][2])>>, raised |-> "none",
          reply |-> raw_reply]
    ELSE [trace |-> <<GetReply(e.source.host, e.arguments[1][2])>>, raised |-> parsed.err,
          reply |-> None]

\* Lines 396-407 of on_pubmsg and 456-467 of on_privmsg: the reply of the Commander
\* for a command, of the Language engine otherwise.
obtain_reply(e, public, raw_reply, cmdr) ==
    IF command_pattern(e.arguments[1][2])
    THEN _execute_command(e.arguments[1], e.source, public, cmdr)
    ELSE language_reply(e, raw_reply, literal_eval(raw_reply[2]))

\* deliver_reply without the `if reply:` around the delivery.
deliver_reply_unconditional(e, public, got, cmdr) ==
    IF got.raised = "none"
    THEN _deliver_messages(got.reply, e.source, Channel, public, cmdr)
    ELSE Done(<<>>)

\* Lines 409-413 of on_pubmsg and 469-473 of on_privmsg: the reply `got` delivered
\* if there is one.
deliver_reply(e, public, got, cmdr) ==
    IF got.raised = "none" /\ Truthy(got.reply)
    THEN _deliver_messages(got.reply, e.source, Channel, public, cmdr)
    ELSE Done(<<>>)

\* The trace and the exception of a handler's steps one after the other, with the
\* reply the first of them obtained.
with_reply(got, then) ==
    [trace  |-> IF got.raised = "none" THEN got.trace \o then.trace ELSE got.trace,
     raised |-> IF got.raised = "none" THEN then.raised ELSE got.raised,
     reply  |-> got.reply]

\* Lines 392-413 of on_pubmsg and 452-473 of on_privmsg: set_name, then the reply
\* `got`, then its delivery.
deliver_obtained(e, public, got, cmdr) ==
    with_reply([trace |-> <<SetName(e.source.host, e.source.nick)>> \o got.trace,
                raised |-> got.raised, reply |-> got.reply],
               deliver_reply(e, public, got, cmdr))

\* Lines 392-413 of on_pubmsg and 452-473 of on_privmsg: [trace, raised, reply] of
\* obtaining the reply of message event e and delivering it; raw_reply is what the
\* Language engine returns when asked.
reply_and_deliver(e, public, raw_reply, cmdr) ==
    deliver_obtained(e, public, obtain_reply(e, public, raw_reply, cmdr), cmdr)

(***************************************************************************)
(* Postmaster.deliver and its MessageParser (irc_utils, not among the      *)
(* sources): replies resolved to delivery actions, then each action sent.  *)
(***************************************************************************)
PublicKeys == {k_public, k_public_notice, k_public_action}

PrivateKeys == {k_private, k_private_notice, k_private_action}

DestinationKeys == PublicKeys \cup PrivateKeys \cup {k_action, k_default, k_command}

\* How deep a `command` element may re-enter the Commander before Python gives up.
RecursionLimit == 2

Action(key, text) == [key |-> key, text |-> text]

RECURSIVE resolve(_, _, _, _, _)
RECURSIVE resolve_all(_, _, _, _, _, _)
\* [trace, raised, actions] for the elements items[i..] of a sequence.
resolve_all(items, i, source, public, cmdr, fuel) ==
    IF i > Len(items) THEN [trace |-> <<>>, raised |-> "none", actions |-> <<>>]
    ELSE LET head == resolve(items[i], source, public, cmdr, fuel)
             tail == resolve_all(items, i + 1, source, public, cmdr, fuel)
         IN IF head.raised # "none" THEN head
            ELSE [trace |-> head.trace \o tail.trace, raised |-> tail.raised,
                  actions |-> head.actions \o tail.actions]

\* [trace, raised, actions] for one raw reply.
resolve(raw, source, public, cmdr, fuel) ==
    CASE raw[1] = "NoneType" -> [trace |-> <<>>, raised |-> "none", actions |-> <<>>]
      [] raw[1] = "list" -> resolve_all(raw[2], 1, source, public, cmdr, fuel)
      [] raw[1] = "dict" /\ raw[2] # <<>> /\ raw[2][1][1] = PyStr(k_command) ->
            IF fuel = 0 THEN [trace |-> <<>>, raised |-> "RecursionError", actions |-> <<>>]
            ELSE LET out    == commander_execute(cmdr, raw[2][1][2])
                     nested == resolve((IF out.raises THEN None ELSE out.value),
                                       source, public, cmdr, fuel - 1)
                 IN [trace |-> <<Execute(py_str(raw[2][1][2]), source.nick, public)>>
                                 \o nested.trace,
                     raised |-> nested.raised,
                     actions |-> [a \in 1..Len(nested.actions) |->
                                     Action(k_default, nested.actions[a].text)]]
      [] raw[1] = "dict" /\ raw[2] # <<>> ->
            [trace |-> <<>>, raised |-> "none",
             actions |-> <<Action((IF raw[2][1][1][1] = "str" /\ raw[2][1][1][2] \in DestinationKeys
                                   THEN raw[2][1][1][2] ELSE k_default),
                                  _parse_message(py_str(raw[2][1][2])))>>]
      [] OTHER -> [trace |-> <<>>, raised |-> "none",
                   actions |-> <<Action(k_default, _parse_message(py_str(raw)))>>]

\* The destination table: the effects of one delivery action.
postmaster_send(action, source, public) ==
    CASE action.key = k_public         -> <<ChanLog("MESSAGE", BotNick, action.text),
                                            Send("privmsg", ChannelName, action.text)>>
      [] action.key = k_public_notice  -> <<ChanLog("NOTICE", BotNick, action.text),
                                            Send("notice", ChannelName, action.text)>>
      [] action.key = k_public_action  -> <<ChanLog("ACTION", BotNick, action.text),
                                            Send("action", ChannelName, action.text)>>
      [] action.key = k_private        -> <<Send("privmsg", source.nick, action.text)>>
      [] action.key = k_private_notice -> <<Send("notice", source.nick, action.text)>>
      [] action.key = k_private_action -> <<Send("action", source.nick, action.text)>>
      [] action.key = k_action ->
            IF public THEN <<ChanLog("ACTION", BotNick, action.text),
                             Send("action", ChannelName, action.text)>>
            ELSE <<Send("action", source.nick, action.text)>>
      [] OTHER ->
            IF public THEN <<ChanLog("MESSAGE", BotNick, action.text),
                             Send("privmsg", ChannelName, action.text)>>
            ELSE <<Send("privmsg", source.nick, action.text)>>

RECURSIVE postmaster_send_all(_, _, _, _)
postmaster_send_all(actions, i, source, public) ==
    IF i > Len(actions) THEN <<>>
    ELSE postmaster_send(actions[i], source, public)
         \o postmaster_send_all(actions, i + 1, source, public)

\* self.postmaster.deliver(replies, event.source, self.channel)
postmaster_deliver(replies, source, public, cmdr) ==
    LET r == resolve(replies, source, public, cmdr, RecursionLimit)
    IN AndThen(Done(<<Deliver(source.nick, public)>>),
               AndThen([trace |-> r.trace, raised |-> r.raised],
                       Done(postmaster_send_all(r.actions, 1, source, public))))

(***************************************************************************)
(* src/nano_irc.py: the helpers of the handlers                            *)
(***************************************************************************)
\* self.command.trigger_pattern (the Commander's): the trigger of net_irc.py.
trigger_pattern(text) == command_pattern(text)

\* _log_message(event, log_format, public): [trace, loggers]
_log_message(e, log_format, public, loggers) ==
    IF public
    THEN [trace |-> <<ChanLog(log_format, e.source.nick, e.arguments[1][2])>>, loggers |-> loggers]
    ELSE [trace |-> <<QueryLog(log_format, e.source.nick, e.arguments[1][2])>>,
          loggers |-> query_logger(loggers, e.source)]

\* _get_replies(event, public): [trace, raised, reply]; the Commander is called
\* with no exception handler around it, and with True for its public flag.
_get_replies(e, public, lang_value, cmdr) ==
    LET text == e.arguments[1]
        out  == commander_execute(cmdr, text)
    IN IF trigger_pattern(text[2])
       THEN [trace  |-> <<Execute(text[2], e.source.nick, TRUE)>>,
             raised |-> IF out.raises THEN "Exception" ELSE "none",
             reply  |-> IF out.raises THEN None ELSE out.value]
       ELSE [trace  |-> <<SetName(e.source.host, e.source.nick),
                          GetReply(e.source.host, text[2])>>,
             raised |-> "none",
             reply  |-> lang_value]

\* _fire_module_event(event_name, event): the Commander's event entry point is
\* called with no exception handler around it.
_fire_module_event(event_name, e, public, event_out, cmdr) ==
    AndThen((IF event_out.raises THEN Raise(<<FireEvent(event_name, e.source.nick)>>, "Exception")
             ELSE Done(<<FireEvent(event_name, e.source.nick)>>)),
            IF ~event_out.raises /\ Truthy(event_out.value)
            THEN postmaster_deliver(event_out.value, e.source, public, cmdr)
            ELSE Done(<<>>))

\* _handle_replies(event, replies, command_event)
_handle_replies(e, public, replies, command_event, event_out, cmdr) ==
    IF Truthy(replies) THEN postmaster_deliver(replies, e.source, public, cmdr)
    ELSE IF command_event # "" THEN _fire_module_event(command_event, e, public, event_out, cmdr)
    ELSE Done(<<>>)

\* _handle_replies called with the reply `got` that _get_replies obtained.
handle_obtained(e, public, got, command_event, event_out, cmdr) ==
    with_reply(got, _handle_replies(e, public, got.reply, command_event, event_out, cmdr))

\* The body shared by on_public_message and on_private_message after the receipt
\* is logged: _get_replies, then _handle_replies.  [trace, raised, reply]
replies_and_handle(e, public, command_event, lang_value, event_out, cmdr) ==
    handle_obtained(e, public, _get_replies(e, public, lang_value, cmdr),
                    command_event, event_out, cmdr)

(***************************************************************************)
(* Inputs                                                                  *)
(***************************************************************************)
\* The longest reply sequence a collaborator returns.
MaxItems == 2

Sources == {NickMask("alice", "h1"), NickMask("bob", "h2")}

\* ">>>date": a message that is a command
t_date == <<">",">",">","d","a","t","e">>

\* "hi all": a message that is not
t_hi == <<"h","i"," ","a","l","l">>

\* "<i>a&lt;b</i>": a reply text with markup, sanitized to "a<b"
t_markup == <<"<","i",">","a","&","l","t",";","b","<","/","i",">">>

\* "2024-01-01"
t_day == <<"2","0","2","4","-","0","1","-","0","1">>

MessageTexts == {t_date, t_hi}

\* A key outside the enumerated destination keys.
k_bogus == <<"p","u","b","l","c">>

ReplyKeys == DestinationKeys \cup {k_bogus}

\* What a reply sequence is made of: a mapping per key, and bare strings.
Elements ==
    {PyDict(<<<<PyStr(k), PyStr(IF k = k_command THEN t_date ELSE t_markup)>>>>) : k \in ReplyKeys}
    \cup {PyStr(t_markup), PyStr(t_day)}

RECURSIVE SeqsUpTo(_, _)
\* The sequences of at most n members of S.
SeqsUpTo(S, n) ==
    IF n = 0 THEN {<<>>}
    ELSE LET shorter == SeqsUpTo(S, n - 1)
         IN shorter \cup {Append(q, x) : q \in {p \in shorter : Len(p) = n - 1}, x \in S}

\* The replies of the Language engine: nothing, an empty text, one element, or a
\* sequence.  The engine of net_irc.py returns the reply as text (str(reply)), which
\* the handler reads back with literal_eval.
Replies ==
    {None, PyStr(<<>>)} \cup Elements
    \cup {PyList(items) : items \in SeqsUpTo(Elements, MaxItems)}

\* Whether a reply holds a `command` element.
HasCommand(r) ==
    \/ r[1] = "dict" /\ r[2] # <<>> /\ r[2][1][1] = PyStr(k_command)
    \/ r[1] = "list" /\ \E i \in 1..Len(r[2]) :
            r[2][i][1] = "dict" /\ r[2][i][2] # <<>> /\ r[2][i][2][1][1] = PyStr(k_command)

\* What a command does when executed.
CommandOutcomes ==
    {Raises, Returns(None), Returns(PyStr(t_day)),
     Returns(PyDict(<<<<PyStr(k_private_notice), PyStr(t_markup)>>>>)),
     Returns(PyDict(<<<<PyStr(k_command), PyStr(t_date)>>>>)),
     Returns(PyList(<<PyStr(t_day), PyDict(<<<<PyStr(k_public_action), PyStr(t_markup)>>>>)>>))}

Commanders == [{t_date} -> CommandOutcomes]

\* What the Commander's event entry point does.
EventOutcomes == {Raises, Returns(None), Returns(PyStr(t_day))}

\* The stand-ins of the variables while no event is being handled.
NotAsked == [raises |-> FALSE, value |-> PyStr(<<"-">>)]

NoEvent == [type |-> "none", source |-> NickMask("", ""), target |-> "", arguments |-> <<>>]

MessageEvent(type, source, target, text) ==
    [type |-> type, source |-> source, target |-> target, arguments |-> <<PyStr(text)>>]

(***************************************************************************)
(* State                                                                   *)
(***************************************************************************)
VARIABLES
    running,        \* the event loop is alive (no handler has raised)
    query_loggers,  \* self.query_loggers: nick -> host the logger was made with
    handler,        \* the handler that ran for the current event, "none" between events
    event,          \* the event as the transport handed it over
    arguments,      \* event.arguments after the handler
    command,        \* what self.command.execute does with each command string
    lang_reply,     \* what the Language engine returned for it (NotAsked if not asked)
    event_reply,    \* what self.command.event did for it (NotAsked if not fired)
    reply,          \* the reply the handler obtained
    trace,          \* the calls the handler made on its collaborators, in order
    raised,         \* the exception the handler left with, "none" if it returned
    input,          \* the argument of a function called on its own (a text, as tokens)
    output          \* the function called on its own and what it returned

vars == <<running, query_loggers, handler, event, arguments, command, lang_reply,
          event_reply, reply, trace, raised, input, output>>

\* The stand-in of `output` while no function has been called on its own.
NoOutput ==
    [fn |-> "none", text |-> <<>>, matched |-> FALSE, source |-> NickMask("", ""),
     logger |-> NickMask("", "")]

\* The stand-in of `command` while the Commander is not consulted.
NoCommander == [c \in {t_date} |-> Raises]

\* NanoIRC.__init__: the bot before its first event.
Constructed ==
    /\ running = TRUE
    /\ query_loggers = <<>>
    /\ handler = "none"
    /\ event = NoEvent
    /\ arguments = <<>>
    /\ command = NoCommander
    /\ lang_reply = NotAsked
    /\ event_reply = NotAsked
    /\ reply = None
    /\ trace = <<>>
    /\ raised = "none"

Init ==
    /\ Constructed
    /\ input = <<>>
    /\ output = NoOutput

\* The state a handler leaves: out is [trace, raised, reply] of its body.
Handled(name, e, args, cmdr, lang, ev, out, loggers) ==
    /\ handler' = name
    /\ event' = e
    /\ arguments' = args
    /\ command' = cmdr
    /\ lang_reply' = lang
    /\ event_reply' = ev
    /\ reply' = out.reply
    /\ trace' = out.trace
    /\ raised' = out.raised
    /\ running' = (out.raised = "none")
    /\ query_loggers' = loggers
    /\ UNCHANGED <<input, output>>

\* Idle without waiting for the handler of the previous event to return.
IdleOrBusy == running

Idle == running /\ handler = "none"

\* What the Language engine was asked: its answer if the text was not a command.
Asked(text, answer) == IF command_pattern(text) THEN NotAsked ELSE Returns(answer)

\* The answers to draw for a message: the Language engine is not consulted for a
\* command, so one stand-in answer is enough there.
AnswersTo(text) == IF command_pattern(text) THEN {PyStr(<<>>)} ELSE Replies

\* The Commanders to draw for a message and the answer to it: one stand-in when
\* neither is a command.
CommandersFor(text, answer) ==
    IF command_pattern(text) \/ HasCommand(answer) THEN Commanders ELSE {NoCommander}

\* The outcomes to draw for the Commander's event entry point: one stand-in when
\* the handler does not reach it.
EventOutcomesIf(fires) == IF fires THEN EventOutcomes ELSE {NotAsked}

\* "{['a']: 'b'}": a text that spells a dict display with a list as its key
t_unhashable == <<"{","[","'","a","'","]",":"," ","'","b","'","}">>

\* The texts the Language engine of net_irc.py returns: the replies as text
\* (str(reply)), and a text that is no literal.
RawReplies == {py_str(answer) : answer \in Replies} \cup {t_unhashable}

\* The texts to draw for a message: the Language engine is not consulted for a
\* command, so one stand-in text is enough there.
RawRepliesTo(text) == IF command_pattern(text) THEN {<<>>} ELSE RawReplies

\* The receipt's logger call, then what the handler's body did.
after_receipt(receipt, body) ==
    [trace |-> receipt \o body.trace, raised |-> body.raised, reply |-> body.reply]

\* A handler's body that obtains no reply.
no_reply(body) == [trace |-> body.trace, raised |-> body.raised, reply |-> None]

\* net_irc.py on_pubmsg
on_pubmsg ==
    /\ Idle
    /\ \E source \in Sources, text \in MessageTexts :
       \E raw \in RawRepliesTo(text) :
       \E cmdr \in CommandersFor(text, literal_eval(raw).val) :
          LET e    == MessageEvent("pubmsg", source, ChannelName, text)
              raw_reply == PyStr(raw)
          IN Handled("on_pubmsg", e, e.arguments, cmdr, Asked(text, raw_reply), NotAsked,
                     after_receipt(<<ChanLog("MESSAGE", source.nick, text)>>,
                                   reply_and_deliver(e, TRUE, raw_reply, cmdr)),
                     query_loggers)

\* net_irc.py on_privmsg
on_privmsg ==
    /\ Idle
    /\ \E source \in Sources, text \in MessageTexts :
       \E raw \in RawRepliesTo(text) :
       \E cmdr \in CommandersFor(text, literal_eval(raw).val) :
          LET e    == MessageEvent("privmsg", source, BotNick, text)
              raw_reply == PyStr(raw)
          IN Handled("on_privmsg", e, e.arguments, cmdr, Asked(text, raw_reply), NotAsked,
                     after_receipt(<<QueryLog("MESSAGE", source.nick, text)>>,
                                   reply_and_deliver(e, FALSE, raw_reply, cmdr)),
                     query_logger(query_loggers, source))

\* Whether the Commander's event entry point is reached by a message handler of
\* src/nano_irc.py: the reply was obtained and is falsy.
Fires(got) == got.raised = "none" /\ ~Truthy(got.reply)

\* src/nano_irc.py on_public_message
on_public_message ==
    /\ Idle
    /\ \E source \in Sources, text \in MessageTexts :
       \E lang_value \in AnswersTo(text) :
       \E cmdr \in CommandersFor(text, lang_value) :
       \E event_out \in EventOutcomesIf(Fires(_get_replies(
                MessageEvent("pubmsg", source, ChannelName, text), TRUE, lang_value, cmdr))) :
          LET e    == MessageEvent("pubmsg", source, ChannelName, text)
              log  == _log_message(e, "MESSAGE", TRUE, query_loggers)
          IN Handled("on_public_message", e, e.arguments, cmdr, Asked(text, lang_value),
                     event_out,
                     after_receipt(log.trace,
                                   replies_and_handle(e, TRUE, "EVENT_PUBMSG", lang_value,
                                                      event_out, cmdr)),
                     log.loggers)

\* src/nano_irc.py on_private_message
on_private_message ==
    /\ Idle
    /\ \E source \in Sources, text \in MessageTexts :
       \E lang_value \in AnswersTo(text) :
       \E cmdr \in CommandersFor(text, lang_value) :
       \E event_out \in EventOutcomesIf(Fires(_get_replies(
                MessageEvent("privmsg", source, BotNick, text), FALSE, lang_value, cmdr))) :
          LET e    == MessageEvent("privmsg", source, BotNick, text)
              log  == _log_message(e, "MESSAGE", FALSE, query_logger(query_loggers, source))
          IN Handled("on_private_message", e, e.arguments, cmdr, Asked(text, lang_value),
                     event_out,
                     after_receipt(log.trace,
                                   replies_and_handle(e, FALSE, "EVENT_PRIVMSG", lang_value,
                                                      event_out, cmdr)),
                     log.loggers)

\* src/nano_irc.py on_quit: a quit with or without a parting text
on_quit ==
    /\ Idle
    /\ \E source \in Sources, args \in {<<>>, <<PyStr(t_hi)>>}, event_out \in EventOutcomes :
          LET e    == [type |-> "quit", source |-> source, target |-> "", arguments |-> args]
              left == IF args = <<>> THEN <<None>> ELSE args
          IN Handled("on_quit", e, left, NoCommander, NotAsked, event_out,
                     no_reply(AndThen(Done(<<ChanLog("QUIT", source.nick, py_str(left[1]))>>),
                                      _fire_module_event("EVENT_QUIT", e, TRUE, event_out,
                                                         NoCommander))),
                     query_loggers)

\* An action or a notice reaches the bot in the channel or in a private conversation.
Targets == {ChannelName, BotNick}

\* net_irc.py on_action: the receipt is logged, nothing else happens
on_action_net ==
    /\ Idle
    /\ \E source \in Sources, target \in Targets, text \in MessageTexts :
          LET e == MessageEvent("action", source, target, text)
          IN IF e.target = BotNick
             THEN Handled("on_action_net", e, e.arguments, NoCommander, NotAsked, NotAsked,
                          [trace |-> <<QueryLog("ACTION", source.nick, text)>>,
                           raised |-> "none", reply |-> None],
                          query_logger(query_loggers, source))
             ELSE Handled("on_action_net", e, e.arguments, NoCommander, NotAsked, NotAsked,
                          [trace |-> <<ChanLog("ACTION", source.nick, text)>>,
                           raised |-> "none", reply |-> None],
                          query_loggers)

\* net_irc.py on_pubnotice
on_pubnotice ==
    /\ Idle
    /\ \E source \in Sources, text \in MessageTexts :
          LET e == MessageEvent("pubnotice", source, ChannelName, text)
          IN Handled("on_pubnotice", e, e.arguments, NoCommander, NotAsked, NotAsked,
                     [trace |-> <<ChanLog("NOTICE", source.nick, text)>>,
                      raised |-> "none", reply |-> None],
                     query_loggers)

\* net_irc.py on_privnotice
on_privnotice ==
    /\ Idle
    /\ \E source \in Sources, text \in MessageTexts :
          LET e == MessageEvent("privnotice", source, BotNick, text)
          IN Handled("on_privnotice", e, e.arguments, NoCommander, NotAsked, NotAsked,
                     [trace |-> <<QueryLog("NOTICE", source.nick, text)>>,
                      raised |-> "none", reply |-> None],
                     query_logger(query_loggers, source))

\* connection.get_nickname, the bound method (on_action line 349 does not call it).
get_nickname == [cls |-> "method", val |-> "get_nickname"]

\* a != b of Python for a str and a str or a method: values of different classes
\* are never equal.
PyNotEqual(a, b) == a.cls # b.cls \/ a.val # b.val

\* Line 349: public = (event.target != connection.get_nickname)
action_is_public(e) == PyNotEqual([cls |-> "str", val |-> e.target], get_nickname)

\* The answers of the Language engine drawn for an action.
ActionAnswers(text) ==
    IF command_pattern(text) THEN {PyStr(<<>>)} ELSE {None, PyStr(t_day)}

\* src/nano_irc.py on_action
on_action ==
    /\ Idle
    /\ \E source \in Sources, target \in Targets, text \in MessageTexts :
       \E lang_value \in ActionAnswers(text) :
       \E cmdr \in CommandersFor(text, lang_value) :
       \E event_out \in EventOutcomesIf(Fires(_get_replies(
                MessageEvent("action", source, target, text), TRUE, lang_value, cmdr))) :
          LET e      == MessageEvent("action", source, target, text)
              public == action_is_public(e)
              command_event == IF public THEN "EVENT_PUBACTION" ELSE "EVENT_PRIVACTION"
              log  == _log_message(e, "ACTION", public,
                                   IF public THEN query_loggers
                                   ELSE query_logger(query_loggers, source))
          IN Handled("on_action", e, e.arguments, cmdr, Asked(text, lang_value), event_out,
                     after_receipt(log.trace,
                                   replies_and_handle(e, public, command_event, lang_value,
                                                      event_out, cmdr)),
                     log.loggers)

\* on_public_notice querying for replies before _handle_replies, as
\* on_public_message does.
on_public_notice_queries ==
    /\ Idle
    /\ \E source \in Sources, text \in MessageTexts, event_out \in EventOutcomes :
          LET e    == MessageEvent("pubnotice", source, ChannelName, text)
              log  == _log_message(e, "NOTICE", TRUE, query_loggers)
          IN Handled("on_public_notice", e, e.arguments, NoCommander, NotAsked, event_out,
                     after_receipt(log.trace,
                                   replies_and_handle(e, TRUE, "EVENT_PUBNOTICE", None,
                                                      event_out, NoCommander)),
                     log.loggers)

\* src/nano_irc.py on_public_notice
on_public_notice ==
    /\ Idle
    /\ \E source \in Sources, text \in MessageTexts, event_out \in EventOutcomes :
          LET e    == MessageEvent("pubnotice", source, ChannelName, text)
              log  == _log_message(e, "NOTICE", TRUE, query_loggers)
          IN Handled("on_public_notice", e, e.arguments, NoCommander, NotAsked, event_out,
                     after_receipt(log.trace, no_reply(
                         _handle_replies(e, TRUE, None, "EVENT_PUBNOTICE", event_out,
                                         NoCommander))),
                     log.loggers)

\* src/nano_irc.py on_private_notice
on_private_notice ==
    /\ Idle
    /\ \E source \in Sources, text \in MessageTexts, event_out \in EventOutcomes :
          LET e    == MessageEvent("privnotice", source, BotNick, text)
              log  == _log_message(e, "NOTICE", FALSE, query_logger(query_loggers, source))
          IN Handled("on_private_notice", e, e.arguments, NoCommander, NotAsked, event_out,
                     after_receipt(log.trace, no_reply(
                         _handle_replies(e, FALSE, None, "EVENT_PRIVNOTICE", event_out,
                                         NoCommander))),
                     log.loggers)

\* A join, part, quit or kick as the transport hands it over: a part and a quit
\* come with or without a parting text, a kick names the kicked nick.
LifecycleEvent(type, source, args) ==
    [type |-> type, source |-> source,
     target |-> IF type = "quit" THEN "" ELSE ChannelName, arguments |-> args]

PartingTexts == {<<>>, <<PyStr(t_hi)>>}

\* Lines 505-506 (519-520; 421-422 and 435-436 of src/nano_irc.py):
\* event.arguments after `if not len(e.arguments): e.arguments.append(None)`.
append_none(args) == IF Len(args) = 0 THEN <<None>> ELSE args

\* The state a handler leaves that asks nobody for a reply.
Logged(name, e, args, calls) ==
    Handled(name, e, args, NoCommander, NotAsked, NotAsked,
            [trace |-> calls, raised |-> "none", reply |-> None], query_loggers)

\* net_irc.py on_join
on_join_net ==
    /\ Idle
    /\ \E source \in Sources :
          LET e == LifecycleEvent("join", source, <<>>)
          IN Logged("on_join_net", e, e.arguments, <<ChanLog("JOIN", source.nick, <<>>)>>)

\* net_irc.py on_part
on_part_net ==
    /\ Idle
    /\ \E source \in Sources, args \in PartingTexts :
          LET e == LifecycleEvent("part", source, args)
          IN Logged("on_part_net", e, append_none(args),
                    <<ChanLog("PART", source.nick, py_str(append_none(args)[1]))>>)

\* on_quit dropping the query logger of the nick that left.
on_quit_net_evicts ==
    /\ Idle
    /\ \E source \in Sources, args \in PartingTexts :
          LET e == LifecycleEvent("quit", source, args)
          IN Handled("on_quit_net", e, append_none(args), NoCommander, NotAsked, NotAsked,
                     [trace  |-> <<ChanLog("QUIT", source.nick, py_str(append_none(args)[1]))>>,
                      raised |-> "none", reply |-> None],
                     [n \in DOMAIN query_loggers \ {source.nick} |-> query_loggers[n]])

\* net_irc.py on_quit
on_quit_net ==
    /\ Idle
    /\ \E source \in Sources, args \in PartingTexts :
          LET e == LifecycleEvent("quit", source, args)
          IN Logged("on_quit_net", e, append_none(args),
                    <<ChanLog("QUIT", source.nick, py_str(append_none(args)[1]))>>)

\* net_irc.py on_kick: pass
on_kick_net ==
    /\ Idle
    /\ \E source \in Sources, kicked \in Sources :
          LET e == LifecycleEvent("kick", source, <<PyStr(<<kicked.nick>>), PyStr(t_hi)>>)
          IN Logged("on_kick_net", e, e.arguments, <<>>)

\* src/nano_irc.py on_join
on_join ==
    /\ Idle
    /\ \E source \in Sources :
          LET e == LifecycleEvent("join", source, <<>>)
          IN Logged("on_join", e, e.arguments, <<ChanLog("JOIN", source.nick, <<>>)>>)

\* src/nano_irc.py on_part
on_part ==
    /\ Idle
    /\ \E source \in Sources, args \in PartingTexts :
          LET e == LifecycleEvent("part", source, args)
          IN Logged("on_part", e, append_none(args),
                    <<ChanLog("PART", source.nick, py_str(append_none(args)[1]))>>)

\* src/nano_irc.py on_kick: pass
on_kick ==
    /\ Idle
    /\ \E source \in Sources, kicked \in Sources :
          LET e == LifecycleEvent("kick", source, <<PyStr(<<kicked.nick>>), PyStr(t_hi)>>)
          IN Logged("on_kick", e, e.arguments, <<>>)

\* The handler has returned and the event loop takes the next event.
process_once ==
    /\ running /\ handler # "none"
    /\ handler' = "none"
    /\ event' = NoEvent
    /\ arguments' = <<>>
    /\ command' = NoCommander
    /\ lang_reply' = NotAsked
    /\ event_reply' = NotAsked
    /\ reply' = None
    /\ trace' = <<>>
    /\ raised' = "none"
    /\ UNCHANGED <<running, query_loggers, input, output>>

Next ==
    \/ on_pubmsg
    \/ on_privmsg
    \/ on_public_message
    \/ on_private_message
    \/ on_quit
    \/ on_action_net
    \/ on_pubnotice
    \/ on_privnotice
    \/ on_action
    \/ on_public_notice
    \/ on_private_notice
    \/ on_join_net
    \/ on_part_net
    \/ on_quit_net
    \/ on_kick_net
    \/ on_join
    \/ on_part
    \/ on_kick
    \/ process_once

Spec == Init /\ [][Next]_vars

(***************************************************************************)
(* _parse_message and the trigger called on their own, on texts built from *)
(* tokens                                                                  *)
(***************************************************************************)
\* The longest marked-up text, in tokens.
MaxTokens == 3

\* The longest text tried on the trigger, in characters.
MaxChars == 5

tag_i == <<"<","i",">">>

tag_i_end == <<"<","/","i",">">>

ent_lt == <<"&","l","t",";">>

ent_gt == <<"&","g","t",";">>

ent_amp == <<"&","a","m","p",";">>

PlainTokens == {<<"a">>, <<"b"," ","c">>}

BoldTags == {tag_strong, tag_strong_end}

OtherTags == {tag_i, tag_i_end}

Entities == {ent_lt, ent_gt, ent_amp}

MarkupTokens == PlainTokens \cup BoldTags \cup OtherTags \cup Entities

TriggerChars == {<<">">>, <<" ">>, <<"a">>, <<"Z">>, <<"1">>}

\* The text a token sequence spells.
RECURSIVE Flatten(_)
Flatten(tokens) == IF tokens = <<>> THEN <<>> ELSE Head(tokens) \o Flatten(Tail(tokens))

TextInputs == SeqsUpTo(MarkupTokens, MaxTokens) \cup SeqsUpTo(TriggerChars, MaxChars)

TextInit ==
    /\ Constructed
    /\ input \in TextInputs
    /\ output = NoOutput

\* self._parse_message(text)
parse_message ==
    /\ output.fn = "none"
    /\ output' = [NoOutput EXCEPT !.fn = "_parse_message",
                                  !.text = _parse_message(Flatten(input))]
    /\ UNCHANGED <<running, query_loggers, handler, event, arguments, command, lang_reply,
                   event_reply, reply, trace, raised, input>>

\* self.command_pattern.match(text)
match ==
    /\ output.fn = "none"
    /\ output' = [NoOutput EXCEPT !.fn = "command_pattern",
                                  !.matched = command_pattern(Flatten(input))]
    /\ UNCHANGED <<running, query_loggers, handler, event, arguments, command, lang_reply,
                   event_reply, reply, trace, raised, input>>

TextNext ==
    \/ parse_message
    \/ match

TextSpec == TextInit /\ [][TextNext]_vars

(***************************************************************************)
(* query_logger called on its own                                          *)
(***************************************************************************)
\* The clients that open a private conversation: a nick can come back from
\* another host.
LoggerSources ==
    {NickMask(nick, host) : nick \in {"alice", "bob", "carol"}, host \in {"h1", "h2"}}

\* self.query_logger(source): the logger returned is the one stored under the nick.
call_query_logger ==
    \E source \in LoggerSources :
        /\ query_loggers' = query_logger(query_loggers, source)
        /\ output' = [NoOutput EXCEPT !.fn = "query_logger", !.source = source,
                                      !.logger = NickMask(source.nick,
                                                          query_loggers'[source.nick])]
        /\ UNCHANGED <<running, handler, event, arguments, command, lang_reply,
                       event_reply, reply, trace, raised, input>>

LoggerSpec == Init /\ [][call_query_logger]_vars

(***************************************************************************)
(* _deliver_messages called on its own, on a reply a collaborator holds    *)
(* and returns again for the next event                                    *)
(***************************************************************************)
\* "&amp;lt;": an entity encoded twice; sanitized once it reads "&lt;"
t_twice == <<"&","a","m","p",";","l","t",";">>

\* "&lt;"
t_once == <<"&","l","t",";">>

DeliveryElements ==
    {PyStr(t_twice), PyStr(t_day),
     PyDict(<<<<PyStr(k_public), PyStr(t_twice)>>>>),
     PyDict(<<<<PyStr(k_private_notice), PyStr(t_day)>>>>),
     PyDict(<<<<PyStr(k_command), PyStr(t_date)>>>>),
     PyDict(<<<<PyStr(k_command), PyStr(t_twice)>>>>)}

\* The replies delivered: one element, or a sequence of them.
DeliveryReplies ==
    DeliveryElements \cup {PyList(items) : items \in SeqsUpTo(DeliveryElements, MaxItems)}

\* What the command ">>>date" answers: nothing, a text, a mapping, the same
\* command again.
DeliveryOutcomes ==
    {Raises, Returns(PyStr(t_twice)),
     Returns(PyDict(<<<<PyStr(k_public), PyStr(t_twice)>>>>)),
     Returns(PyDict(<<<<PyStr(k_command), PyStr(t_date)>>>>))}

RECURSIVE messages_after_loop(_, _)
\* Lines 128-136: the list `messages` after the loop over messages[i..], called by
\* a handler: dict.popitem() takes the item out of each mapping the loop reaches;
\* the loop ends at an empty mapping (KeyError) and at a `command` element (return).
messages_after_loop(messages, i) ==
    IF i > Len(messages) THEN messages
    ELSE IF messages[i][1] # "dict" THEN messages_after_loop(messages, i + 1)
    ELSE IF messages[i][2] = <<>> THEN messages
    ELSE IF messages[i][2][Len(messages[i][2])][1] = PyStr(k_command)
         THEN [messages EXCEPT ![i] = PyDict(SubSeq(@[2], 1, Len(@[2]) - 1))]
         ELSE messages_after_loop(
                  [messages EXCEPT ![i] = PyDict(SubSeq(@[2], 1, Len(@[2]) - 1))], i + 1)

\* Lines 118-136: the object `messages` after _deliver_messages(messages, ...): a
\* list is iterated in place, anything else is wrapped in a new list first.
messages_after(messages) ==
    IF messages[1] = "list" THEN PyList(messages_after_loop(messages[2], 1))
    ELSE messages_after_loop(<<messages>>, 1)[1]

DeliveryInit ==
    /\ Constructed
    /\ input = <<>>
    /\ output = NoOutput

\* A collaborator hands the handler a reply for an event; it keeps the object.
obtain ==
    /\ output.fn = "none" /\ reply = None
    /\ \E target \in Targets, r \in DeliveryReplies, cmdr \in [{t_date} -> DeliveryOutcomes] :
          /\ event' = MessageEvent(IF target = ChannelName THEN "pubmsg" ELSE "privmsg",
                                   NickMask("alice", "h1"), target, t_hi)
          /\ reply' = r
          /\ command' = cmdr
    /\ UNCHANGED <<running, query_loggers, handler, arguments, lang_reply, event_reply,
                   trace, raised, input, output>>

\* self._deliver_messages(reply, e.source, self.channel[, False]) for the reply the
\* collaborator holds: once for the event, and again for each later event it
\* returns the same object for.
call_deliver_messages ==
    /\ reply # None
    /\ LET out == _deliver_messages(reply, event.source, Channel,
                                    event.target = ChannelName, command)
       IN /\ trace' = out.trace
          /\ raised' = out.raised
    /\ reply' = messages_after(reply)
    /\ output' = [NoOutput EXCEPT !.fn = "_deliver_messages"]
    /\ UNCHANGED <<running, query_loggers, handler, event, arguments, command, lang_reply,
                   event_reply, input>>

DeliveryNext ==
    \/ obtain
    \/ call_deliver_messages

DeliverySpec == DeliveryInit /\ [][DeliveryNext]_vars

(***************************************************************************)
(* What a handler left behind, read off the state                          *)
(***************************************************************************)
\* The handlers of net_irc.py that deliver through _deliver_messages.
NetHandlers == {"on_pubmsg", "on_privmsg"}

\* The handlers of a message event, of either revision.
MessageHandlers == NetHandlers \cup {"on_public_message", "on_private_message"}

\* The originating event was a channel message.
Public == event.target = ChannelName

Requester == event.source.nick

DefaultDestination == IF Public THEN ChannelName ELSE Requester

IsSend(x) == x.op = "send"

IsChanLog(x) == x.op = "chanlog"

\* The network sends of the handler, in order.
Sends == SelectSeq(trace, IsSend)

\* The channel-logger entries authored by the bot, in order.
BotLogs == SelectSeq(trace, LAMBDA x : IsChanLog(x) /\ x.who = BotNick)

\* The calls made once delivery was entered.
Delivery ==
    LET at == {i \in 1..Len(trace) : trace[i].op = "deliver"}
    IN IF at = {} THEN <<>> ELSE SubSeq(trace, Least(at) + 1, Len(trace))

\* The position in Delivery of its i-th send (0 for i = 0).
SendAt(i) ==
    IF i = 0 THEN 0
    ELSE CHOOSE k \in 1..Len(Delivery) :
            /\ IsSend(Delivery[k])
            /\ Cardinality({j \in 1..k : IsSend(Delivery[j])}) = i

\* The calls delivery made for the i-th send: those after the previous send, up
\* to and including the send.
Chunk(i) ==
    IF i > Len(SelectSeq(Delivery, IsSend)) THEN <<>>
    ELSE SubSeq(Delivery, SendAt(i - 1) + 1, SendAt(i))

\* The reply as the sequence delivery iterates over.
Messages == IF reply[1] = "list" THEN reply[2] ELSE <<reply>>

\* m is a mapping whose item taken by popitem has the key `command`.
IsCommand(m) == m[1] = "dict" /\ m[2] # <<>> /\ m[2][Len(m[2])][1] = PyStr(k_command)

\* m is a bare string or a single-key mapping of a string to a string.
IsElement(m) ==
    \/ m[1] = "str"
    \/ m[1] = "dict" /\ Len(m[2]) = 1 /\ m[2][1][1][1] = "str" /\ m[2][1][2][1] = "str"

\* m is a single-key mapping with one of the keys K.
HasKey(m, K) == IsElement(m) /\ m[1] = "dict" /\ m[2][1][1][2] \in K

\* The text of an element, before sanitization.
TextOf(m) == IF m[1] = "dict" THEN m[2][1][2][2] ELSE m[2]

Sanitized(m) == _parse_message(TextOf(m))

\* A handler of net_irc.py delivered a reply made of elements, none a command.
PlainDelivery ==
    /\ handler \in NetHandlers
    /\ Truthy(reply)
    /\ \A i \in 1..Len(Messages) : IsElement(Messages[i]) /\ ~IsCommand(Messages[i])

\* A handler of net_irc.py got the reply {command: c}, and the Commander answers c
\* with one element that is not a command.
CommandReply ==
    /\ handler \in NetHandlers
    /\ IsCommand(reply) /\ IsElement(reply)
    /\ TextOf(reply) \in DOMAIN command
    /\ ~command[TextOf(reply)].raises
    /\ IsElement(command[TextOf(reply)].value)
    /\ ~IsCommand(command[TextOf(reply)].value)

NestedResult == command[TextOf(reply)].value

\* The send kind and the logger format of a destination key.
SendKind(k) ==
    CASE k \in {k_private, k_public, k_default} -> "privmsg"
      [] k \in {k_private_notice, k_public_notice} -> "notice"
      [] k \in {k_private_action, k_public_action, k_action} -> "action"

LogKind(k) ==
    CASE k \in {k_public, k_default} -> "MESSAGE"
      [] k = k_public_notice -> "NOTICE"
      [] k \in {k_public_action, k_action} -> "ACTION"

(***************************************************************************)
(* Claims                                                                  *)
(***************************************************************************)
\* C1: in a reply sequence holding a `command` element, every element after the
\* command element is still delivered (its sanitized text is sent); none is dropped.
C1_ElementsAfterCommandDelivered ==
    (handler \in NetHandlers /\ reply[1] = "list") =>
        \A i \in 1..Len(reply[2]), j \in 1..Len(reply[2]) :
            (i < j /\ IsCommand(reply[2][i])
                   /\ IsElement(reply[2][j]) /\ ~IsCommand(reply[2][j]))
            => \E k \in 1..Len(Sends) : Sends[k].text = Sanitized(reply[2][j])

\* C2: for the reply {command: c} the Commander is invoked again with c for the
\* original requester, c itself is never sent, and the result of the invocation is
\* delivered: one send per action of it.
C2_CommandResultDelivered ==
    CommandReply =>
        /\ \E k \in 1..Len(Delivery) :
              /\ Delivery[k].op = "execute"
              /\ Delivery[k].text = TextOf(reply)
              /\ Delivery[k].who = Requester
        /\ \A k \in 1..Len(Sends) : Sends[k].text # TextOf(reply)
        /\ Len(Sends) = 1
        /\ Sends[1].text = Sanitized(NestedResult)

\* C3: the action of the nested result of a `command` element goes out as a
\* message to the default destination of the originating event (the channel if it
\* was public, the requester if private), whatever key the nested result carries.
C3_NestedResultToDefaultDestination ==
    CommandReply =>
        /\ raised = "none"
        /\ Sends = <<Send("privmsg", DefaultDestination, Sanitized(NestedResult))>>

\* C4: a reply sequence of N elements, none a command, is delivered in exactly N
\* sends, the i-th carrying the sanitized text of the i-th element; also when the
\* sequence was read from the Language engine's text.
C4_OneSendPerElementInOrder ==
    (PlainDelivery /\ reply[1] = "list") =>
        /\ raised = "none"
        /\ Len(Sends) = Len(reply[2])
        /\ \A i \in 1..Len(reply[2]) : Sends[i].text = Sanitized(reply[2][i])

C4_Witness ==
    /\ handler = "on_pubmsg"
    /\ lang_reply # NotAsked
    /\ reply = PyList(<<PyDict(<<<<PyStr(k_public_notice), PyStr(t_markup)>>>>),
                        PyDict(<<<<PyStr(k_private), PyStr(t_markup)>>>>)>>)
    /\ Len(Sends) = 2
    /\ Sends[1].kind = "notice" /\ Sends[2].who = Requester

\* C5: a non-empty plain-string reply s to a message event is delivered in exactly
\* one send, a message carrying sanitize(s): to the channel with exactly one
\* channel-logger MESSAGE entry by the bot when the event was public, to the
\* requester with no channel-logger entry when it was private.
C5_PlainStringReply ==
    (handler \in NetHandlers /\ reply[1] = "str" /\ reply[2] # <<>>) =>
        /\ raised = "none"
        /\ Sends = <<Send("privmsg", DefaultDestination, _parse_message(reply[2]))>>
        /\ IF Public
           THEN BotLogs = <<ChanLog("MESSAGE", BotNick, _parse_message(reply[2]))>>
           ELSE SelectSeq(trace, IsChanLog) = <<>>

C5_Witness ==
    /\ handler = "on_pubmsg"
    /\ event.arguments[1] = PyStr(t_date)
    /\ reply = PyStr(t_day)
    /\ Sends = <<Send("privmsg", ChannelName, t_day)>>
    /\ Len(BotLogs) = 1

\* C6: for the keys private, private_notice and private_action the send goes to the
\* requester's nick (message, notice, action) and delivery calls neither the channel
\* logger nor a query logger, for a public and for a private event.
C6_PrivateKeysUnlogged ==
    PlainDelivery =>
        \A i \in 1..Len(Messages) :
            HasKey(Messages[i], PrivateKeys) =>
                Chunk(i) = <<Send(SendKind(Messages[i][2][1][1][2]), Requester,
                                  Sanitized(Messages[i]))>>

C6_Witness ==
    /\ handler = "on_pubmsg"
    /\ reply = PyDict(<<<<PyStr(k_private_action), PyStr(t_markup)>>>>)
    /\ Delivery = <<Send("action", Requester, <<"a", "<", "b">>)>>

\* C7: for the keys action and default the target is the channel when the event was
\* public and the requester when it was private, and the channel logger is called
\* (ACTION, respectively MESSAGE) exactly when the event was public.
C7_DefaultKeysFollowOrigin ==
    PlainDelivery =>
        \A i \in 1..Len(Messages) :
            HasKey(Messages[i], {k_action, k_default}) =>
                LET key == Messages[i][2][1][1][2]
                    text == Sanitized(Messages[i])
                    calls == Chunk(i)
                IN /\ calls # <<>>
                   /\ calls[Len(calls)] = Send(SendKind(key), DefaultDestination, text)
                   /\ SelectSeq(calls, IsChanLog) =
                         IF Public THEN <<ChanLog(LogKind(key), BotNick, text)>> ELSE <<>>

C7_Witness ==
    /\ handler = "on_privmsg"
    /\ reply = PyDict(<<<<PyStr(k_action), PyStr(t_markup)>>>>)
    /\ Delivery = <<Send("action", Requester, <<"a", "<", "b">>)>>

\* C8: for the keys public, public_notice and public_action the send goes to the
\* channel (message, notice, action) with exactly one channel-logger entry of the
\* matching kind, also when the originating event was a private conversation.
C8_PublicKeysToChannel ==
    PlainDelivery =>
        \A i \in 1..Len(Messages) :
            HasKey(Messages[i], PublicKeys) =>
                LET key == Messages[i][2][1][1][2]
                    text == Sanitized(Messages[i])
                    calls == Chunk(i)
                IN /\ calls # <<>>
                   /\ calls[Len(calls)] = Send(SendKind(key), ChannelName, text)
                   /\ SelectSeq(calls, IsChanLog) = <<ChanLog(LogKind(key), BotNick, text)>>

C8_Witness ==
    /\ handler = "on_privmsg"
    /\ reply = PyDict(<<<<PyStr(k_public_notice), PyStr(t_markup)>>>>)
    /\ Sends = <<Send("notice", ChannelName, <<"a", "<", "b">>)>>
    /\ BotLogs = <<ChanLog("NOTICE", BotNick, <<"a", "<", "b">>)>>

\* C9: when the Commander raises in execute for a triggered message event, the
\* failure is caught: the reply is absent, nothing is sent, no outbound log entry is
\* made, and the exception does not leave the handler, so the next event is handled.
C9_ExecuteFailureCaught ==
    (/\ handler \in MessageHandlers
     /\ command_pattern(event.arguments[1][2])
     /\ command[event.arguments[1][2]].raises)
    => /\ raised = "none"
       /\ running
       /\ reply = None
       /\ Sends = <<>>
       /\ BotLogs = <<>>

\* C10: when the Commander's event(eventName, event) raises, the handler catches
\* the failure and treats it as no reply: nothing is delivered and the exception
\* does not leave the handler.
C10_EventFailureCaught ==
    event_reply.raises =>
        /\ raised = "none"
        /\ running
        /\ Sends = <<>>

\* The first call of the Commander's execute a handler made: the one for the
\* message itself (those of `command` elements come after delivery is entered).
FirstExecute ==
    LET at == {i \in 1..Len(trace) : trace[i].op = "execute"}
    IN trace[Least(at)]

\* C11: when a message event matches the trigger, the Commander is invoked with
\* the full message text, the source, and a public flag that is true for a channel
\* message and false for a private message.
C11_PublicFlagFollowsOrigin ==
    (handler \in MessageHandlers /\ command_pattern(event.arguments[1][2])) =>
        /\ \E i \in 1..Len(trace) : trace[i].op = "execute"
        /\ FirstExecute = Execute(event.arguments[1][2], Requester, Public)

\* The handlers of an inbound message, notice or action, of either revision.
InboundHandlers ==
    MessageHandlers \cup {"on_action_net", "on_pubnotice", "on_privnotice",
                          "on_action", "on_public_notice", "on_private_notice"}

\* The logger format of an inbound event.
ReceiptKind ==
    CASE event.type \in {"pubmsg", "privmsg"} -> "MESSAGE"
      [] event.type \in {"pubnotice", "privnotice"} -> "NOTICE"
      [] event.type = "action" -> "ACTION"

\* The logger entries written for what the sender said.
ReceiptLogs ==
    SelectSeq(trace, LAMBDA x : x.op \in {"chanlog", "querylog"} /\ x.who = Requester)

\* C12: every inbound message, notice or action is logged exactly once on
\* receipt: on the channel logger when its target is the channel, on the sender's
\* query logger (never the channel logger) when its target is the bot's nick.
C12_ReceiptLoggedByTarget ==
    handler \in InboundHandlers =>
        ReceiptLogs =
            <<IF event.target = BotNick
              THEN QueryLog(ReceiptKind, Requester, event.arguments[1][2])
              ELSE ChanLog(ReceiptKind, Requester, event.arguments[1][2])>>

\* The handlers of a message event of src/nano_irc.py.
NanoMessageHandlers == {"on_public_message", "on_private_message"}

\* The handler obtained a reply or found there is none (_get_replies of
\* src/nano_irc.py did not leave with the Commander's exception).
ReplyObtained ==
    ~(/\ handler \in NanoMessageHandlers
      /\ command_pattern(event.arguments[1][2])
      /\ command[event.arguments[1][2]].raises)

\* The Commander's lifecycle-event entry point was invoked.
EventFired == \E i \in 1..Len(trace) : trace[i].op = "event"

\* C13: for a public or private message event the Commander's lifecycle-event entry
\* point is invoked exactly when the obtained reply is absent or empty; a non-empty
\* reply is handed to delivery and no lifecycle event is fired.
C13_EventFiredIffNoReply ==
    (handler \in MessageHandlers /\ ReplyObtained) =>
        /\ EventFired <=> ~Truthy(reply)
        /\ Truthy(reply) => Delivery # <<>> \/ raised # "none"

\* The handlers of a join, part, quit or kick, of either revision.
LifecycleHandlers ==
    {"on_join", "on_part", "on_quit", "on_kick",
     "on_join_net", "on_part_net", "on_quit_net", "on_kick_net"}

\* C14: every join, part, quit and kick event invokes the Commander's
\* lifecycle-event entry point.
C14_LifecycleEventsFired ==
    handler \in LifecycleHandlers => EventFired

\* The keys the destination switch of _deliver_messages names, and `default`.
EnumeratedKeys ==
    {k_private, k_private_notice, k_private_action, k_public, k_public_notice,
     k_public_action, k_action, k_default, k_command}

\* C15: a reply element whose key is none of the destination keys is delivered
\* like `default`: one message send, to the channel with a channel-logger MESSAGE
\* entry if the event was public, else to the requester with no channel logging;
\* it is not dropped and the delivery does not raise.
C15_UnknownKeyAsDefault ==
    PlainDelivery =>
        /\ raised = "none"
        /\ \A i \in 1..Len(Messages) :
              (Messages[i][1] = "dict" /\ ~HasKey(Messages[i], EnumeratedKeys)) =>
                  Chunk(i) =
                      (IF Public
                       THEN <<ChanLog("MESSAGE", BotNick, Sanitized(Messages[i]))>>
                       ELSE <<>>)
                      \o <<Send("privmsg", DefaultDestination, Sanitized(Messages[i]))>>

C15_Witness ==
    /\ handler = "on_privmsg"
    /\ reply = PyDict(<<<<PyStr(k_bogus), PyStr(t_markup)>>>>)
    /\ raised = "none"
    /\ Delivery = <<Send("privmsg", Requester, <<"a", "<", "b">>)>>

\* The text the Language engine returned for the message.
RawText == lang_reply.value[2]

\* C16: when the Language engine's text reply fails to parse as a structured
\* literal, the handler does not fail: the whole raw text is delivered as one
\* plain-text message on the default destination (exactly one send).
C16_UnparsedTextDelivered ==
    (/\ handler \in NetHandlers
     /\ lang_reply # NotAsked
     /\ RawText # <<>>
     /\ literal_eval(RawText).err # "none")
    => /\ raised = "none"
       /\ Sends = <<Send("privmsg", DefaultDestination, _parse_message(RawText))>>

\* The number of bold control codes in a text.
BoldCount(text) == Cardinality({i \in 1..Len(text) : text[i] = BOLD})

\* The text sanitized holds one bold-emphasis pair: an opening tag, later a closing
\* tag, and no other bold tag.
OneBoldPair == SelectSeq(input, LAMBDA t : t \in BoldTags) = <<tag_strong, tag_strong_end>>

\* C17 (as claimed): sanitizing a text with one bold-emphasis tag pair yields a
\* text with exactly one bold control code.
C17_OneCodePerPair ==
    (output.fn = "_parse_message" /\ OneBoldPair) => BoldCount(output.text) = 1

\* C17 (amended): sanitizing a text with one bold-emphasis tag pair yields a text
\* with exactly two bold control codes: the opening and the closing tag are each
\* rewritten to one code.
C17_OneCodePerTag ==
    (output.fn = "_parse_message" /\ OneBoldPair) => BoldCount(output.text) = 2

C17_Witness ==
    /\ output.fn = "_parse_message"
    /\ input = <<tag_strong, <<"a">>, tag_strong_end>>
    /\ output.text = <<BOLD, "a", BOLD>>

\* What sanitizing makes of a token: a bold tag becomes the control code, any
\* other tag goes, an entity becomes its character, text stays.
Image(token) ==
    CASE token \in BoldTags -> <<BOLD>>
      [] token \in OtherTags -> <<>>
      [] token = ent_lt -> <<"<">>
      [] token = ent_gt -> <<">">>
      [] token = ent_amp -> <<"&">>
      [] OTHER -> token

RECURSIVE Images(_)
Images(tokens) == IF tokens = <<>> THEN <<>> ELSE Image(Head(tokens)) \o Images(Tail(tokens))

\* C18: sanitizing removes the markers of every tag other than the bold tags and
\* keeps the text between them unchanged, and replaces every HTML entity by its
\* character.
C18_TagsStrippedEntitiesDecoded ==
    output.fn = "_parse_message" => output.text = Images(input)

C18_Witness ==
    /\ output.fn = "_parse_message"
    /\ input = <<tag_i, ent_lt, tag_i_end>>
    /\ output.text = <<"<">>

\* The texts the trigger is claimed to accept: three ">", then at most one
\* space, then a letter.
Accepted(text) ==
    \E blanks \in {0, 1} :
        /\ Len(text) >= 4 + blanks
        /\ \A i \in 1..3 : text[i] = ">"
        /\ blanks = 1 => text[4] = " "
        /\ text[4 + blanks] \in Lower \cup Upper

\* C19: the trigger matches exactly the texts that begin with three ">", then
\* optionally one space, then at least one ASCII letter; it answers match or no
\* match for every text and leaves the bot's state as it was.
C19_TriggerAcceptsExactly ==
    output.fn = "command_pattern" =>
        /\ output.matched \in BOOLEAN
        /\ output.matched <=> Accepted(Flatten(input))
        /\ Constructed

C19_Witness ==
    /\ output.fn = "command_pattern"
    /\ Flatten(input) = <<">", ">", ">", " ", "a">>
    /\ output.matched

\* C20: query_logger returns the logger stored for the nick if there is one, with
\* the host it was created with, whatever the caller's host; otherwise it creates
\* and stores one under the nick, leaving the others as they are.
C20_LoggerKeptPerNick ==
    [][output'.fn = "query_logger" =>
        LET source == output'.source
        IN IF source.nick \in DOMAIN query_loggers
           THEN /\ query_loggers' = query_loggers
                /\ output'.logger = NickMask(source.nick, query_loggers[source.nick])
           ELSE /\ DOMAIN query_loggers' = DOMAIN query_loggers \cup {source.nick}
                /\ \A n \in DOMAIN query_loggers : query_loggers'[n] = query_loggers[n]
                /\ query_loggers'[source.nick] = source.host
                /\ output'.logger = NickMask(source.nick, source.host)]_vars

C20_Witness ==
    /\ output.fn = "query_logger"
    /\ output.source = NickMask("alice", "h2")
    /\ output.logger = NickMask("alice", "h1")
    /\ query_loggers["alice"] = "h1"

\* The handlers of a private message, of either revision.
PrivateMessageHandlers == {"on_privmsg", "on_private_message"}

IsLog(x) == x.op \in {"chanlog", "querylog"}

\* The logger entries of the handler, in order.
Logs == SelectSeq(trace, IsLog)

\* The Language engine was asked and gave no reply: None or an empty text (for
\* net_irc.py a text that reads back as a value that is false, or is empty).
LanguageSilent ==
    /\ lang_reply # NotAsked
    /\ IF handler \in NetHandlers
       THEN \/ lang_reply.value[2] = <<>>
            \/ /\ literal_eval(lang_reply.value[2]).err = "none"
               /\ ~Truthy(literal_eval(lang_reply.value[2]).val)
       ELSE ~Truthy(lang_reply.value)

\* The Commander's event entry point gave no reply: it was not called, or
\* returned nothing.
CommanderSilent == event_reply = NotAsked \/ event_reply = Returns(None)

\* C21: a private message for which the Language engine gives no reply and the
\* Commander gives no lifecycle reply causes no network send, and no logger entry
\* other than the one receipt entry on the sender's query logger.
C21_SilentPrivateMessage ==
    (handler \in PrivateMessageHandlers /\ LanguageSilent /\ CommanderSilent) =>
        /\ raised = "none"
        /\ Sends = <<>>
        /\ Logs = <<QueryLog("MESSAGE", Requester, event.arguments[1][2])>>
        /\ Requester \in DOMAIN query_loggers

C21_Witness ==
    /\ handler = "on_private_message"
    /\ lang_reply = Returns(None)
    /\ event_reply = Returns(None)
    /\ trace[Len(trace)] = FireEvent("EVENT_PRIVMSG", Requester)
    /\ Len(trace) = 4

\* The handlers of a notice, of either revision.
NoticeHandlers == {"on_pubnotice", "on_privnotice", "on_public_notice", "on_private_notice"}

\* The handlers of an action, of either revision.
ActionHandlers == {"on_action_net", "on_action"}

\* The handler called Commander.execute or the Language engine's reply function.
AskedForReply == \E i \in 1..Len(trace) : trace[i].op \in {"execute", "get_reply"}

\* C22 (as claimed): handling a notice or an action event never invokes
\* Commander.execute and never invokes the Language engine's reply function.
C22_OnlyMessagesAsk ==
    handler \in NoticeHandlers \cup ActionHandlers => ~AskedForReply

\* C22 (amended): handling a notice event, public or private, never invokes
\* Commander.execute and never invokes the Language engine's reply function, and
\* on_action of net_irc.py does not either; on_action of src/nano_irc.py asks for
\* a reply as a message handler does.
C22_NoticesNeverAsk ==
    /\ handler \in NoticeHandlers \cup {"on_action_net"} => ~AskedForReply
    /\ handler = "on_action" => AskedForReply

C22_Witness ==
    /\ handler = "on_public_notice"
    /\ event_reply = Returns(PyStr(t_day))
    /\ Len(Sends) = 1
    /\ ~AskedForReply

\* The lifecycle event name of a handler of src/nano_irc.py and an origin.
EventName(h, public) ==
    CASE h = "on_public_message"  -> "EVENT_PUBMSG"
      [] h = "on_private_message" -> "EVENT_PRIVMSG"
      [] h = "on_public_notice"   -> "EVENT_PUBNOTICE"
      [] h = "on_private_notice"  -> "EVENT_PRIVNOTICE"
      [] h = "on_action"          -> IF public THEN "EVENT_PUBACTION" ELSE "EVENT_PRIVACTION"
      [] h = "on_quit"            -> "EVENT_QUIT"
      [] OTHER                    -> "none"

\* The lifecycle events the handler fired, in order.
Fired == SelectSeq(trace, LAMBDA x : x.op = "event")

\* C23: the lifecycle event fired for an event matches its kind and its public or
\* private origin: an action whose target is the bot's own nick fires the
\* private-action event, never the public-action one.
C23_EventNameFollowsOrigin ==
    \A i \in 1..Len(Fired) :
        Fired[i].kind = EventName(handler, event.type = "quit" \/ event.target # BotNick)

\* A text of the delivered replies sanitized once, written out.
Once(text) == IF text = t_twice THEN t_once ELSE text

\* The sequence delivery iterates over for the reply r.
MessagesOf(r) == IF r[1] = "list" THEN r[2] ELSE <<r>>

\* The elements delivery reaches before it stops: those before the first
\* `command` element and the first mapping left empty.
Reached(ms) ==
    LET stops == {i \in 1..Len(ms) : IsCommand(ms[i]) \/ ms[i] = PyDict(<<>>)}
    IN IF stops = {} THEN ms ELSE SubSeq(ms, 1, Least(stops) - 1)

\* The first `command` element of ms delivery reaches, as a set.
ReachedCommand(ms) ==
    IF Len(Reached(ms)) < Len(ms) /\ IsCommand(ms[Len(Reached(ms)) + 1])
    THEN {ms[Len(Reached(ms)) + 1]} ELSE {}

C25_QueryLoggersKept ==
    [][\A n \in DOMAIN query_loggers :
          n \in DOMAIN query_loggers' /\ query_loggers'[n] = query_loggers[n]]_vars

C25_Witness ==
    /\ handler \in {"on_quit_net", "on_quit", "on_part_net", "on_part"}
    /\ event.source.nick \in DOMAIN query_loggers
    /\ Cardinality(DOMAIN query_loggers) = 2

\* C26: handling an event does not modify the event: a part or a quit that comes
\* without a parting text still has an empty argument list afterwards.
C26_EventUnmodified ==
    handler # "none" => arguments = event.arguments

\* C27: events are handled one at a time: while the handler of an event has not
\* returned no other handler starts, so the log entries, the Commander and
\* Language calls and the sends of one event, those of a nested `command` round
\* trip included, are all made before the first effect of the next event.
C27_OneEventAtATime ==
    [][/\ handler # "none" => (handler' = "none" /\ trace' = <<>>)
       /\ handler' # "none" => (handler = "none" /\ trace = <<>>)]_vars

C27_Witness ==
    /\ handler = "on_pubmsg"
    /\ DOMAIN query_loggers # {}
    /\ \E i \in 1..Len(trace), j \in 1..Len(trace) :
          i < j /\ trace[i].op = "deliver" /\ trace[j].op = "execute"

\* A call on the Commander, on the Language engine or on the network.
IsCallOut(x) == x.op \in {"execute", "event", "set_name", "get_reply", "send"}

\* C28: within one event the receipt log entry comes before any call on the
\* Commander or the Language engine and before any send, and every channel-logger
\* entry for an outbound action comes right before the send of that action.
C28_LogBeforeCall ==
    /\ (\E i \in 1..Len(trace) : IsCallOut(trace[i])) =>
          /\ IsLog(trace[1]) /\ trace[1].who = Requester
          /\ \A i \in 1..Len(trace) : IsCallOut(trace[i]) => i > 1
    /\ \A j \in 1..Len(trace) :
          (IsChanLog(trace[j]) /\ trace[j].who = BotNick) =>
             \/ j = Len(trace) /\ raised # "none"
             \/ j < Len(trace) /\ IsSend(trace[j + 1]) /\ trace[j + 1].text = trace[j].text

C28_Witness ==
    /\ handler = "on_pubmsg"
    /\ Len(trace) = 6
    /\ trace[1] = ChanLog("MESSAGE", Requester, t_hi)
    /\ trace[3].op = "get_reply"
    /\ trace[5] = ChanLog("NOTICE", BotNick, <<"a", "<", "b">>)
    /\ trace[6] = Send("notice", ChannelName, <<"a", "<", "b">>)

\* The calls on the Commander in a trace.
Executes(t) == SelectSeq(t, LAMBDA x : x.op = "execute")

\* C29: delivery of any reply finishes, and after finitely many calls on the
\* Commander: a `command` element makes one call, and a command whose result
\* holds a `command` element again (the same command included) makes no more.
C29_DeliveryTerminates ==
    [][output'.fn = "_deliver_messages" =>
        /\ raised' \in {"none", "AttributeError", "KeyError"}
        /\ Len(Executes(trace')) = Cardinality(ReachedCommand(MessagesOf(reply)))
        /\ Len(Executes(trace')) <= 1]_vars

C29_Witness ==
    /\ output.fn = "_deliver_messages"
    /\ command[t_date] = Returns(PyDict(<<<<PyStr(k_command), PyStr(t_date)>>>>))
    /\ Len(Executes(trace)) = 1
    /\ Executes(trace)[1].text = t_date

\* C30: delivering a reply leaves the reply as it was: when the collaborator
\* returns the same mapping, or a sequence of the same mappings, for the next
\* event, the second delivery makes the same sends and logger calls as the first.
C30_ReplyUnchangedByDelivery ==
    [][output'.fn = "_deliver_messages" =>
        /\ reply' = reply
        /\ output.fn = "_deliver_messages" => (trace' = trace /\ raised' = raised)]_vars

\* C31: whenever the Language engine returns a text that is not empty for a
\* message that is not a command, public or private, at least one network send
\* is made, whatever the text reads as (a number, None, an empty list).
C31_NonEmptyTextIsSent ==
    (handler \in NetHandlers /\ lang_reply # NotAsked /\ RawText # <<>>) => Len(Sends) >= 1

=============================================================================
